---- MODULE Spec2Model ----
(***************************************************************************)
(* Model of error_docs.py: one run reads ./src/errors.rs, extracts every   *)
(* "E####: ..." literal with ERROR_PATTERN, substitutes every              *)
(* header ... end-marker span with the regenerated listing, prints the     *)
(* result and writes it back.                                              *)
(*                                                                         *)
(* A text is a sequence of characters.  The three fixed strings the        *)
(* script handles as a whole ("/// ", "Macro to produce nice errors",      *)
(* "#[macro_export]") are kept as one element each: none of them contains  *)
(* a quote, a backslash, a newline, a digit or a colon, and none can be    *)
(* assembled from the other elements, so matching on elements is matching  *)
(* on characters.                                                          *)
(***************************************************************************)
EXTENDS Integers, Sequences, FiniteSets

VARIABLES file, pc, content, errors, new_content, stdout, err, orig, input0, runs

vars == <<file, pc, content, errors, new_content, stdout, err, orig, input0, runs>>

\* ---------------------------------------------------------------- bounds
MaxFrags == 3
MaxRuns == 2

\* ------------------------------------------------------------ characters
QUOTE == "\""
BSL == "\\"
NL == "\n"
COMMENT_PREFIX == "/// "

Digits == {"1", "2", "9"}
OctDigits == {"1", "2"}
\* elements whose first character is an ASCII letter
AsciiLetters == {"E", "d", "g", "n", "I", "J", "Q", "R", "Macro to produce nice errors"}

ERROR_INITIAL_DOC == <<COMMENT_PREFIX, "Macro to produce nice errors">>
END_MARKER == <<"#[macro_export]">>

\* s has the literal lit at index i
MatchLit(s, i, lit) ==
    /\ i >= 1
    /\ i + Len(lit) - 1 <= Len(s)
    /\ \A k \in 1..Len(lit) : s[i + k - 1] = lit[k]

\* ------------------------------------------------ ERROR_PATTERN, findall
\* The lazy .+? has consumed s[j..k-1]; the index of the closing quote, or 0.
\* Without DOTALL the dot does not match a newline.
RECURSIVE DotPlusEnd(_, _)
DotPlusEnd(s, k) ==
    IF k > Len(s) THEN 0
    ELSE IF s[k] = QUOTE THEN k
    ELSE IF s[k] = NL THEN 0
    ELSE DotPlusEnd(s, k + 1)

ErrorMatchEndLoose(s, i) ==
    IF /\ i + 4 <= Len(s)
       /\ s[i] = QUOTE
       /\ s[i + 1] = "E"
       /\ s[i + 2] \in Digits
       /\ \E c \in (i + 3)..(Len(s) - 1) :
             /\ s[c] = ":"
             /\ \A k \in (i + 2)..(c - 1) : s[k] \in Digits
             /\ s[c + 1] # NL
    THEN LET c == CHOOSE c \in (i + 3)..(Len(s) - 1) :
                     /\ s[c] = ":"
                     /\ \A k \in (i + 2)..(c - 1) : s[k] \in Digits
         IN DotPlusEnd(s, c + 2)
    ELSE 0

\* "(E\d\d\d\d:.+?)" tried at index i: the index of the closing quote, or 0
ErrorMatchEnd(s, i) ==
    IF /\ i + 8 <= Len(s)
       /\ s[i] = QUOTE
       /\ s[i + 1] = "E"
       /\ \A k \in 2..5 : s[i + k] \in Digits
       /\ s[i + 6] = ":"
       /\ s[i + 7] # NL
    THEN DotPlusEnd(s, i + 8)
    ELSE 0

\* re.findall(ERROR_PATTERN, s): the captured groups of the non-overlapping
\* matches, left to right
RECURSIVE FindAllFrom(_, _)
FindAllFrom(s, pos) ==
    IF pos > Len(s) THEN <<>>
    ELSE LET e == ErrorMatchEnd(s, pos) IN
         IF e # 0
         THEN <<SubSeq(s, pos + 1, e - 1)>> \o FindAllFrom(s, e + 1)
         ELSE FindAllFrom(s, pos + 1)

FindAll(s) == FindAllFrom(s, 1)

\* ------------------------------------- ERROR_DOC_LISTING_PATTERN, DOTALL
\* index of the first END_MARKER starting at or after k, or 0
RECURSIVE FirstMarkerFrom(_, _)
FirstMarkerFrom(s, k) ==
    IF k > Len(s) THEN 0
    ELSE IF MatchLit(s, k, END_MARKER) THEN k
    ELSE FirstMarkerFrom(s, k + 1)

RECURSIVE LastMarkerFrom(_, _)
LastMarkerFrom(s, k) ==
    IF k > Len(s) THEN 0
    ELSE LET later == LastMarkerFrom(s, k + 1) IN
         IF later # 0 THEN later
         ELSE IF MatchLit(s, k, END_MARKER) THEN k ELSE 0

ListingMatchEndGreedy(s, i) ==
    IF MatchLit(s, i, ERROR_INITIAL_DOC)
    THEN LET m == LastMarkerFrom(s, i + Len(ERROR_INITIAL_DOC)) IN
         IF m = 0 THEN 0 ELSE m + Len(END_MARKER) - 1
    ELSE 0

\* (header).*?(#\[macro_export\]) tried at index i: the last index of the
\* match, or 0
ListingMatchEnd(s, i) ==
    IF MatchLit(s, i, ERROR_INITIAL_DOC)
    THEN LET m == FirstMarkerFrom(s, i + Len(ERROR_INITIAL_DOC)) IN
         IF m = 0 THEN 0 ELSE m + Len(END_MARKER) - 1
    ELSE 0

\* ------------------------------------------------- replacement template
\* "\n/// ".join(errors)
RECURSIVE Join(_)
Join(es) ==
    IF es = <<>> THEN <<>>
    ELSE IF Len(es) = 1 THEN es[1]
    ELSE es[1] \o <<NL, COMMENT_PREFIX>> \o Join(Tail(es))

\* r"\g<1>\n/// " + "\n/// ".join(errors) + r"\n\g<2>"
Template(es) ==
    <<BSL, "g", "<", "1", ">", BSL, "n", COMMENT_PREFIX>>
        \o Join(es)
        \o <<BSL, "n", BSL, "g", "<", "2", ">">>

\* chr(int(d1 d2 d3, 8)) for the octal digits of the alphabet
OctChar(d1, d2, d3) ==
    IF d1 = "1"
    THEN IF d2 = "1" THEN (IF d3 = "1" THEN "I" ELSE "J")
                     ELSE (IF d3 = "1" THEN "Q" ELSE "R")
    ELSE IF d2 = "1" THEN (IF d3 = "1" THEN "chr(137)" ELSE "chr(138)")
                     ELSE (IF d3 = "1" THEN "chr(145)" ELSE "chr(146)")

RECURSIVE IndexOfFrom(_, _, _)
IndexOfFrom(t, c, k) ==
    IF k > Len(t) THEN 0
    ELSE IF t[k] = c THEN k
    ELSE IndexOfFrom(t, c, k + 1)

TemplateError == [ok |-> FALSE, parts |-> <<>>]

Cons(p, r) == IF r.ok THEN [ok |-> TRUE, parts |-> p \o r.parts] ELSE r

\* The template parser of re (parse_template): a backslash starts a group
\* reference (\g<name>, \1), an octal escape, a known escape (\n, \\), is an
\* error before an ASCII letter, and is kept with the next character
\* otherwise.  The pattern has two groups.
RECURSIVE ParseTemplateFrom(_, _)
ParseTemplateFrom(t, i) ==
    IF i > Len(t) THEN [ok |-> TRUE, parts |-> <<>>]
    ELSE IF t[i] # BSL THEN Cons(<< <<"lit", t[i]>> >>, ParseTemplateFrom(t, i + 1))
    ELSE IF i = Len(t) THEN TemplateError
    ELSE LET c == t[i + 1] IN
      IF c = "g" THEN
         IF i + 2 > Len(t) \/ t[i + 2] # "<" THEN TemplateError
         ELSE LET close == IndexOfFrom(t, ">", i + 3) IN
              IF close = 0 THEN TemplateError
              ELSE IF SubSeq(t, i + 3, close - 1) \in {<<"1">>, <<"2">>}
                   THEN Cons(<< <<"grp", t[i + 3]>> >>, ParseTemplateFrom(t, close + 1))
                   ELSE TemplateError
      ELSE IF c \in Digits THEN
         IF i + 2 <= Len(t) /\ t[i + 2] \in Digits
         THEN IF /\ c \in OctDigits
                 /\ t[i + 2] \in OctDigits
                 /\ i + 3 <= Len(t)
                 /\ t[i + 3] \in OctDigits
              THEN Cons(<< <<"lit", OctChar(c, t[i + 2], t[i + 3])>> >>,
                        ParseTemplateFrom(t, i + 4))
              ELSE TemplateError
         ELSE IF c \in {"1", "2"}
              THEN Cons(<< <<"grp", c>> >>, ParseTemplateFrom(t, i + 2))
              ELSE TemplateError
      ELSE IF c = "n" THEN Cons(<< <<"lit", NL>> >>, ParseTemplateFrom(t, i + 2))
      ELSE IF c = BSL THEN Cons(<< <<"lit", BSL>> >>, ParseTemplateFrom(t, i + 2))
      ELSE IF c \in AsciiLetters THEN TemplateError
      ELSE Cons(<< <<"lit", BSL>>, <<"lit", c>> >>, ParseTemplateFrom(t, i + 2))

ParseTemplate(t) == ParseTemplateFrom(t, 1)

\* the text a parsed template stands for; group 1 is the header and group 2
\* the end marker in every match
RECURSIVE Expand(_)
Expand(parts) ==
    IF parts = <<>> THEN <<>>
    ELSE LET p == Head(parts) IN
         (IF p[1] = "lit" THEN <<p[2]>>
          ELSE IF p[2] = "1" THEN ERROR_INITIAL_DOC
          ELSE END_MARKER) \o Expand(Tail(parts))

\* ---------------------------------------------------------------- re.sub
\* the count argument of re.sub; 0 replaces every match
SUB_COUNT == 0

RECURSIVE SubFromFirstOnly(_, _, _, _)
SubFromFirstOnly(s, pos, repl, n) ==
    IF pos > Len(s) THEN <<>>
    ELSE IF n >= 1 THEN SubSeq(s, pos, Len(s))
    ELSE LET e == ListingMatchEnd(s, pos) IN
         IF e # 0
         THEN repl \o SubFromFirstOnly(s, e + 1, repl, n + 1)
         ELSE <<s[pos]>> \o SubFromFirstOnly(s, pos + 1, repl, n)

\* the scan of re.sub from pos, n replacements done so far
RECURSIVE SubFrom(_, _, _, _)
SubFrom(s, pos, repl, n) ==
    IF pos > Len(s) THEN <<>>
    ELSE IF SUB_COUNT # 0 /\ n >= SUB_COUNT THEN SubSeq(s, pos, Len(s))
    ELSE LET e == ListingMatchEnd(s, pos) IN
         IF e # 0
         THEN repl \o SubFrom(s, e + 1, repl, n + 1)
         ELSE <<s[pos]>> \o SubFrom(s, pos + 1, repl, n)

\* re.sub(ERROR_DOC_LISTING_PATTERN, template, s, 0, re.DOTALL); the template
\* is compiled before the scan, so a bad template fails with or without a
\* match
Sub(s, es) ==
    LET parsed == ParseTemplate(Template(es)) IN
    IF parsed.ok
    THEN [ok |-> TRUE, text |-> SubFrom(s, 1, Expand(parsed.parts), 0)]
    ELSE [ok |-> FALSE, text |-> <<>>]

\* ---------------------------------------------------------- input texts
\* a string literal "E<code>:<body>"
Literal(code, body) == <<QUOTE, "E">> \o code \o <<":">> \o body \o <<QUOTE>>

Fragments ==
    { ERROR_INITIAL_DOC,
      END_MARKER,
      ERROR_INITIAL_DOC \o <<NL>> \o END_MARKER,
      <<"d", NL>>,
      Literal(<<"1", "1", "1", "1">>, <<"d">>),
      Literal(<<"1", "1", "1", "2">>, <<"n">>),
      Literal(<<"1", "2">>, <<"d">>),
      Literal(<<"1", "1", "1", "1", "2">>, <<"d">>),
      Literal(<<"1", "1", "1", "9">>, <<BSL, "d">>),
      Literal(<<"1", "1", "2", "1">>, <<BSL, "1">>),
      Literal(<<"1", "1", "2", "2">>, <<BSL, "g">>),
      Literal(<<"1", "2", "1", "1">>, END_MARKER),
      Literal(<<"1", "2", "1", "2">>, ERROR_INITIAL_DOC) }

RECURSIVE TextsOf(_)
TextsOf(k) ==
    IF k = 0 THEN {<<>>}
    ELSE {f \o t : f \in Fragments, t \in TextsOf(k - 1)}

Texts == UNION {TextsOf(k) : k \in 1..MaxFrags}

Prefixes(s) == {SubSeq(s, 1, k) : k \in 0..(Len(s) - 1)}

\* ----------------------------------------------------------------- state
Init ==
    /\ file \in Texts
    /\ pc = "start"
    /\ content = <<>>
    /\ errors = <<>>
    /\ new_content = <<>>
    /\ stdout = <<>>
    /\ err = "none"
    /\ orig = file
    /\ input0 = file
    /\ runs = 1

\* with open(ERRORS_PATH, "r") as fr
OpenRead ==
    /\ pc = "start"
    /\ pc' = "opened_r"
    /\ UNCHANGED <<file, content, errors, new_content, stdout, err, orig, input0, runs>>

OpenReadFail ==
    /\ pc = "start"
    /\ pc' = "failed"
    /\ err' = "io"
    /\ UNCHANGED <<file, content, errors, new_content, stdout, orig, input0, runs>>

\* content = fr.read()
Read ==
    /\ pc = "opened_r"
    /\ content' = file
    /\ pc' = "read"
    /\ UNCHANGED <<file, errors, new_content, stdout, err, orig, input0, runs>>

ReadFail ==
    /\ pc = "opened_r"
    /\ pc' = "failed"
    /\ err' = "io"
    /\ UNCHANGED <<file, content, errors, new_content, stdout, orig, input0, runs>>

\* errors = re.findall(ERROR_PATTERN, content)
Extract ==
    /\ pc = "read"
    /\ errors' = FindAll(content)
    /\ pc' = "extracted"
    /\ UNCHANGED <<file, content, new_content, stdout, err, orig, input0, runs>>

SubstituteRescan ==
    /\ pc = "extracted"
    /\ LET r == Sub(content, errors) IN
         IF r.ok
         THEN /\ new_content' = r.text
              /\ errors' = FindAll(r.text)
              /\ pc' = "computed"
              /\ err' = err
         ELSE /\ pc' = "failed"
              /\ err' = "re"
              /\ UNCHANGED <<new_content, errors>>
    /\ UNCHANGED <<file, content, stdout, orig, input0, runs>>

\* new_content = re.sub(...); re.error (or IndexError) when the template
\* built from the messages does not compile
Substitute ==
    /\ pc = "extracted"
    /\ LET r == Sub(content, errors) IN
         IF r.ok
         THEN /\ new_content' = r.text
              /\ pc' = "computed"
              /\ err' = err
         ELSE /\ pc' = "failed"
              /\ err' = "re"
              /\ UNCHANGED new_content
    /\ UNCHANGED <<file, content, errors, stdout, orig, input0, runs>>

\* with open(ERRORS_PATH, "w") as fw: mode "w" truncates the file
OpenWrite ==
    /\ pc = "computed"
    /\ file' = <<>>
    /\ pc' = "opened_w"
    /\ UNCHANGED <<content, errors, new_content, stdout, err, orig, input0, runs>>

OpenWriteFail ==
    /\ pc = "computed"
    /\ pc' = "failed"
    /\ err' = "io"
    /\ UNCHANGED <<file, content, errors, new_content, stdout, orig, input0, runs>>

\* print(new_content)
StdoutWrite ==
    /\ pc = "opened_w"
    /\ stdout' = new_content \o <<NL>>
    /\ pc' = "printed"
    /\ UNCHANGED <<file, content, errors, new_content, err, orig, input0, runs>>

StdoutWriteFail ==
    /\ pc = "opened_w"
    /\ pc' = "failed"
    /\ err' = "io"
    /\ UNCHANGED <<file, content, errors, new_content, stdout, orig, input0, runs>>

\* fw.write(new_content) and the flush when the with block closes fw
Write ==
    /\ pc = "printed"
    /\ file' = new_content
    /\ pc' = "done"
    /\ UNCHANGED <<content, errors, new_content, stdout, err, orig, input0, runs>>

\* a failing write leaves any proper prefix of the text in the file
WriteFail ==
    /\ pc = "printed"
    /\ file' \in Prefixes(new_content)
    /\ pc' = "failed"
    /\ err' = "io"
    /\ UNCHANGED <<content, errors, new_content, stdout, orig, input0, runs>>

\* the script is started again on the file the last run wrote
Rerun ==
    /\ pc = "done"
    /\ runs < MaxRuns
    /\ runs' = runs + 1
    /\ orig' = file
    /\ pc' = "start"
    /\ content' = <<>>
    /\ errors' = <<>>
    /\ new_content' = <<>>
    /\ stdout' = <<>>
    /\ UNCHANGED <<file, err, input0>>

Next ==
    \/ OpenRead
    \/ OpenReadFail
    \/ Read
    \/ ReadFail
    \/ Extract
    \/ Substitute
    \/ OpenWrite
    \/ OpenWriteFail
    \/ StdoutWrite
    \/ StdoutWriteFail
    \/ Write
    \/ WriteFail
    \/ Rerun

Spec == Init /\ [][Next]_vars

\* ------------------------------------------------- vocabulary of claims
Min(S) == CHOOSE x \in S : \A y \in S : x <= y

HeaderAt(s) == {i \in 1..Len(s) : MatchLit(s, i, ERROR_INITIAL_DOC)}
MarkerAt(s) == {j \in 1..Len(s) : MatchLit(s, j, END_MARKER)}

\* indices of the headers at or after from that have an end marker after them
PairStarts(s, from) ==
    {i \in HeaderAt(s) :
        /\ i >= from
        /\ \E j \in MarkerAt(s) : j >= i + Len(ERROR_INITIAL_DOC)}

HasPair(s) == PairStarts(s, 1) # {}

\* the first header of s and the last index of the first end marker after it
FirstHeader(s) == Min(HeaderAt(s))
SpanEnd(s, i) ==
    Min({j \in MarkerAt(s) : j >= i + Len(ERROR_INITIAL_DOC)}) + Len(END_MARKER) - 1

Before(s, i) == SubSeq(s, 1, i - 1)
After(s, e) == SubSeq(s, e + 1, Len(s))

ExactlyOnePair(s) ==
    /\ HasPair(s)
    /\ ~HasPair(After(s, SpanEnd(s, FirstHeader(s))))

SeveralPairs(s) ==
    /\ HasPair(s)
    /\ HasPair(After(s, SpanEnd(s, FirstHeader(s))))

\* the block the script's template stands for, for the messages es
Block(es) == Expand(ParseTemplate(Template(es)).parts)

\* one comment line per message
RECURSIVE Lines(_)
Lines(es) ==
    IF es = <<>> THEN <<>>
    ELSE <<NL, COMMENT_PREFIX>> \o Head(es) \o Lines(Tail(es))

\* header line, one line per message, end marker
ListedBlock(es) == ERROR_INITIAL_DOC \o Lines(es) \o <<NL>> \o END_MARKER

\* s with every span, left to right, replaced by b
RECURSIVE ReplaceSpans(_, _)
ReplaceSpans(s, b) ==
    IF ~HasPair(s) THEN s
    ELSE LET i == Min(PairStarts(s, 1))
             e == SpanEnd(s, i)
         IN Before(s, i) \o b \o ReplaceSpans(After(s, e), b)

Computed == pc \in {"computed", "opened_w", "printed", "done"}
TemplateRejected == pc = "failed" /\ err = "re"

\* an extracted message: E, four digits, a colon, one or more characters
Shaped(m) ==
    /\ Len(m) >= 7
    /\ m[1] = "E"
    /\ \A k \in 2..5 : m[k] \in Digits
    /\ m[6] = ":"
    /\ \A k \in 7..Len(m) : m[k] # NL
    /\ \A k \in 8..Len(m) : m[k] # QUOTE

\* m stands between two double quotes somewhere in s
QuotedIn(s, m) ==
    \E i \in 1..Len(s) :
        /\ s[i] = QUOTE
        /\ MatchLit(s, i + 1, m \o <<QUOTE>>)

ShortLiteral == Literal(<<"1", "2">>, <<"d">>)
LongLiteral == Literal(<<"1", "1", "1", "1", "2">>, <<"d">>)
Occurs(s, lit) == \E i \in 1..Len(s) : MatchLit(s, i, lit)

\* ----------------------------------------------------------------- claims
\* C1: for a text with the marker pair, running the script on the output of
\* a run gives that output again: T(T(x)) = T(x).
C1_Idempotent ==
    (pc = "done" /\ runs >= 2 /\ HasPair(input0)) => file = orig

\* C2: with the marker pair present the regenerated block is the header
\* line, one line "/// " + m per extracted message m, reproduced character
\* for character and in order, then the end marker.
C2_ListingAsExtracted ==
    (Computed /\ HasPair(content))
        => MatchLit(new_content, FirstHeader(content), ListedBlock(errors))

\* C3: without the marker pair the run raises no error from the
\* transformation and the new text, and the file written back, equal the
\* input.
C3_NoPairNoOp ==
    ~HasPair(orig) =>
        /\ ~TemplateRejected
        /\ Computed => new_content = content
        /\ pc = "done" => file = orig

\* C4: with the marker pair and no matching literal the block is the header
\* line directly followed by the end marker line.
C4_EmptyListing ==
    (Computed /\ HasPair(content) /\ errors = <<>>)
        => MatchLit(new_content, FirstHeader(content),
                    ERROR_INITIAL_DOC \o <<NL>> \o END_MARKER)

\* C5: every extracted message is E, exactly four digits, a colon and at
\* least one character, taken from between two double quotes of the text;
\* the body of a literal with a shorter or longer code is never extracted.
C5_FourDigits ==
    pc = "extracted" =>
        \A k \in 1..Len(errors) :
            /\ Shaped(errors[k])
            /\ QuotedIn(content, errors[k])
            /\ <<QUOTE>> \o errors[k] \o <<QUOTE>> \notin {ShortLiteral, LongLiteral}

C5_Witness ==
    /\ pc = "extracted"
    /\ errors # <<>>
    /\ Occurs(content, ShortLiteral)
    /\ Occurs(content, LongLiteral)

\* C6: the messages the block is built from are those of a scan of the
\* original file text, and the substitution is applied to that same text.
C6_SingleSource ==
    pc = "computed" =>
        /\ content = orig
        /\ errors = FindAll(orig)
        /\ new_content = Sub(orig, FindAll(orig)).text

\* a literal lies inside the span that is replaced
C6_Witness ==
    /\ pc = "computed"
    /\ HasPair(orig)
    /\ \E i \in 1..Len(orig) :
          /\ ErrorMatchEnd(orig, i) # 0
          /\ i > FirstHeader(orig)
          /\ i < SpanEnd(orig, FirstHeader(orig))

\* C7: once the file is read, a run fails only on I/O.
C7_OnlyIOFailures == pc = "failed" => err = "io"

\* C8: a run that ends leaves the original text (failed) or the complete new
\* text (completed) in the file.
C8_AllOrNothing ==
    /\ pc = "failed" => file = orig
    /\ pc = "done" => file = new_content

\* C9: with exactly one header ... end-marker pair, the span from the first
\* header to the first end marker after it is replaced by the block, and the
\* text before and after it is unchanged; a run that produces no new text
\* leaves the file as it was.
C9_Frame ==
    /\ (pc = "computed" /\ ExactlyOnePair(orig)) =>
          LET i == FirstHeader(orig) IN
          new_content = Before(orig, i) \o Block(errors)
                           \o After(orig, SpanEnd(orig, i))
    /\ (TemplateRejected /\ ExactlyOnePair(orig)) => file = orig

\* text before the header and after an end marker that is followed by another
C9_Witness ==
    /\ pc = "computed"
    /\ ExactlyOnePair(orig)
    /\ FirstHeader(orig) > 1
    /\ MarkerAt(After(orig, SpanEnd(orig, FirstHeader(orig)))) # {}

\* C10 as stated: with two or more pairs only the first span is replaced.
C10_OnlyFirstReplaced ==
    (pc = "computed" /\ SeveralPairs(orig)) =>
        LET i == FirstHeader(orig) IN
        new_content = Before(orig, i) \o Block(errors)
                         \o After(orig, SpanEnd(orig, i))

\* C10 amended: with two or more pairs every span, left to right, is
\* replaced by the same block and the text outside the spans is unchanged; a
\* run that produces no new text leaves the file as it was.
C10_EveryPairReplaced ==
    /\ (pc = "computed" /\ SeveralPairs(orig)) =>
          new_content = ReplaceSpans(orig, Block(errors))
    /\ (TemplateRejected /\ SeveralPairs(orig)) => file = orig

C10_Witness ==
    /\ pc = "computed"
    /\ SeveralPairs(orig)
    /\ errors # <<>>

====
